---- MODULE Spec2Model ----
(***************************************************************************)
(* The document-state cache of markdowntopdf-notes-system.                 *)
(*                                                                         *)
(* DocumentStateManager (src/markdown_to_pdf/verification.py) keeps one    *)
(* SQLite table, document_state, with one row per source document.  The    *)
(* converters (src/markdown_to_pdf/ebook_converter.py and                  *)
(* src/convert_md_to_pdf.py) ask needs_regeneration before rendering and   *)
(* call save_document_state after it.                                      *)
(*                                                                         *)
(* Spec       one caller of the store's operations and an environment that *)
(*            writes, deletes and chmods output files.                     *)
(* SpecTime   the caller with the wall clock running.                      *)
(* SpecFault  the caller with sqlite3 failing in any operation.            *)
(* SpecClear  the caller next to a process running clear_all_documents.    *)
(* SpecConv   a conversion worker running the converters' pipelines while  *)
(*            the environment edits the source file.                       *)
(* SpecPar    two conversion workers of one parallel convert_all.          *)
(* SpecRace   two processes saving at the same time.                       *)
(* SpecSchema the store on a database file created by the older store.     *)
(***************************************************************************)
EXTENDS Integers, Sequences, FiniteSets, TLC

VARIABLES
    db,        \* the rows of table document_state
    now,       \* CURRENT_TIMESTAMP, in seconds
    outFile,   \* the output file of each document: outFile[OutPath(id)]
    srcFile,   \* the content of each markdown source file
    pc,        \* where the caller of the store is: "idle" or "hashing"
    local,     \* the caller's local variables while inside needs_regeneration
    call,      \* the operation that returned in the last step, with its arguments
    ret,       \* what that operation returned or raised
    hist,      \* per identifier: what happened since its last successful save
    worker,    \* per document: the conversion worker's position and locals
    clearer,   \* the process running clear_all_documents statement by statement
    conn,      \* per concurrent saver: its connection's transaction and its position
    columns,   \* the columns of table document_state in the database file
    tempDir    \* the converter's temp_dir: whether it exists, and who wrote each path

vars ==
    <<db, now, outFile, srcFile, pc, local, call, ret, hist, worker, clearer, conn,
      columns, tempDir>>

(***************************************************************************)
(* Bounds of the model.                                                    *)
(***************************************************************************)
\* Number of distinct file contents the environment and the renderer produce.
NumContents == 2
\* Largest value CURRENT_TIMESTAMP takes.
MaxClock == 1

(***************************************************************************)
(* Values.                                                                 *)
(***************************************************************************)
\* Python's None and SQL's NULL in a column or argument of string type.
None == "<None>"

\* The identifiers (source file names) and the path of each one's output file.
Ids == {"a.md", "b.md"}
OutPath(id) == id
Paths == {OutPath(id) : id \in Ids}

Contents == 1 .. NumContents

\* hashlib.sha256(...).hexdigest(): a fixed table of distinct non-empty digests,
\* one per content (collision resistance).
HexDigest == <<"d1", "d2", "d3", "d4">>
Digests == {HexDigest[c] : c \in Contents}

\* A file of the filesystem: absent, or present with a content and a flag telling
\* whether open(path, "rb") succeeds.
Missing == [exists |-> FALSE, readable |-> FALSE, content |-> 0]
File(c, r) == [exists |-> TRUE, readable |-> r, content |-> c]
Files == {Missing} \cup {File(c, r) : c \in Contents, r \in BOOLEAN}

\* A diagram dimension as the caller passes it: None, an int or a str.
DimNone == [t |-> "none"]
DimInt(i) == [t |-> "int", i |-> i]
DimStr(s) == [t |-> "str", s |-> s]

\* str(i) for the ints the model uses.
IntStr(i) == CASE i = 1680 -> "1680" [] i = 2240 -> "2240" [] OTHER -> "0"

\* str(v) if v is not None else None
StrOrNone(v) ==
    CASE v.t = "none" -> None
      [] v.t = "int" -> IntStr(v.i)
      [] v.t = "str" -> v.s

\* 1 if has_page_numbers else 0
BoolInt(b) == IF b THEN 1 ELSE 0

\* What an operation hands back to its caller.
NoReturn == [kind |-> "idle"]
ReturnNone == [kind |-> "none"]
ReturnBool(b) == [kind |-> "bool", val |-> b]
ReturnDict(d) == [kind |-> "dict", val |-> d]
ReturnInt(n) == [kind |-> "int", val |-> n]
Raise(e) == [kind |-> "raise", val |-> e]

(***************************************************************************)
(* Content Fingerprinter.                                                  *)
(***************************************************************************)
\* calculate_file_hash: the hex digest of the file's bytes; any failure to open
\* or read the file (missing, unreadable) is re-raised as RuntimeError.
calculate_file_hash(f) ==
    IF f.exists /\ f.readable
    THEN [kind |-> "str", val |-> HexDigest[f.content]]
    ELSE Raise("RuntimeError")

(***************************************************************************)
(* Arguments.  A call passes its first nargs parameters; the rest take the *)
(* defaults of the signature.                                              *)
(***************************************************************************)
\* save_document_state(filename, markdown_hash, pdf_hash=None,
\*     style_profile='a4-print', max_diagram_width=None, max_diagram_height=None,
\*     page_margins=None, has_page_numbers=True)
SaveParams(a) ==
    [filename           |-> a.filename,
     markdown_hash      |-> a.markdown_hash,
     pdf_hash           |-> IF a.nargs >= 3 THEN a.pdf_hash ELSE None,
     style_profile      |-> IF a.nargs >= 4 THEN a.style_profile ELSE "a4-print",
     max_diagram_width  |-> IF a.nargs >= 5 THEN a.max_diagram_width ELSE DimNone,
     max_diagram_height |-> IF a.nargs >= 6 THEN a.max_diagram_height ELSE DimNone,
     page_margins       |-> IF a.nargs >= 7 THEN a.page_margins ELSE None,
     has_page_numbers   |-> IF a.nargs >= 8 THEN a.has_page_numbers ELSE TRUE]

\* needs_regeneration(filename, current_markdown_hash, pdf_path,
\*     current_style_profile='a4-print', current_max_diagram_width=None,
\*     current_max_diagram_height=None, current_page_margins=None,
\*     current_has_page_numbers=True)
NeedsParams(a) ==
    [filename           |-> a.filename,
     markdown_hash      |-> a.markdown_hash,
     pdf_path           |-> a.pdf_path,
     style_profile      |-> IF a.nargs >= 4 THEN a.style_profile ELSE "a4-print",
     max_diagram_width  |-> IF a.nargs >= 5 THEN a.max_diagram_width ELSE DimNone,
     max_diagram_height |-> IF a.nargs >= 6 THEN a.max_diagram_height ELSE DimNone,
     page_margins       |-> IF a.nargs >= 7 THEN a.page_margins ELSE None,
     has_page_numbers   |-> IF a.nargs >= 8 THEN a.has_page_numbers ELSE TRUE]

(***************************************************************************)
(* Document State Store: the SQL statements, on the set of rows.           *)
(***************************************************************************)
\* SELECT ... FROM document_state WHERE filename = ?
RowsOf(rows, filename) == {r \in rows : r.filename = filename}

\* Mutant of InsertOrReplace: an upsert that merges, keeping the replaced row's
\* output hash and diagram width where the new row has NULL.
InsertOrReplace_Merge(rows, row) ==
    LET old == {r \in rows : r.filename = row.filename}
        keep(field) ==
            IF row[field] = None /\ old # {}
            THEN (CHOOSE r \in old : TRUE)[field]
            ELSE row[field]
    IN {r \in rows : r.filename # row.filename}
       \cup {[row EXCEPT !.pdf_hash = keep("pdf_hash"),
                         !.max_diagram_width = keep("max_diagram_width")]}

\* Mutant of InsertOrReplace: every row is taken to be in conflict with the new
\* one.
InsertOrReplace_Truncates(rows, row) == {row}

\* INSERT OR REPLACE: filename is the PRIMARY KEY, so the rows in conflict with
\* the new one are deleted before it is inserted.
InsertOrReplace(rows, row) ==
    {r \in rows : r.filename # row.filename} \cup {row}

\* The row save_document_state writes.  created_at is not in the column list of the
\* INSERT, so it takes its DEFAULT CURRENT_TIMESTAMP, as updated_at does explicitly.
SavedRow(p, ts) ==
    [filename           |-> p.filename,
     markdown_hash      |-> p.markdown_hash,
     pdf_hash           |-> p.pdf_hash,
     style_profile      |-> p.style_profile,
     max_diagram_width  |-> StrOrNone(p.max_diagram_width),
     max_diagram_height |-> StrOrNone(p.max_diagram_height),
     page_margins       |-> p.page_margins,
     has_page_numbers   |-> BoolInt(p.has_page_numbers),
     created_at         |-> ts,
     updated_at         |-> ts]

\* Mutant of SaveRows: the column markdown_hash has no NOT NULL constraint.
SaveRows_NullAccepted(rows, a, ts) ==
    [rows |-> InsertOrReplace(rows, SavedRow(SaveParams(a), ts)), ret |-> ReturnNone]

\* save_document_state on the rows: markdown_hash TEXT NOT NULL rejects a NULL
\* (sqlite3.IntegrityError, re-raised as RuntimeError; the connection's context
\* manager rolls back), otherwise the row is upserted and committed.
SaveRows(rows, a, ts) ==
    LET p == SaveParams(a) IN
    IF p.markdown_hash = None
    THEN [rows |-> rows, ret |-> Raise("RuntimeError")]
    ELSE [rows |-> InsertOrReplace(rows, SavedRow(p, ts)), ret |-> ReturnNone]

\* Mutant of get_document_state: the SELECT has no WHERE clause, and fetchone()
\* hands back a row of another document when the table has one.
get_document_state_AnyRow(rows, filename) ==
    IF rows = {}
    THEN ReturnNone
    ELSE LET others == {x \in rows : x.filename # filename}
             r == CHOOSE x \in (IF others # {} THEN others ELSE rows) : TRUE IN
         ReturnDict([markdown_hash      |-> r.markdown_hash,
                     pdf_hash           |-> r.pdf_hash,
                     style_profile      |-> r.style_profile,
                     max_diagram_width  |-> r.max_diagram_width,
                     max_diagram_height |-> r.max_diagram_height,
                     page_margins       |-> r.page_margins,
                     has_page_numbers   |-> r.has_page_numbers,
                     updated_at         |-> r.updated_at])

\* get_document_state: the dict built from cursor.fetchone(), or None.
get_document_state(rows, filename) ==
    LET found == RowsOf(rows, filename) IN
    IF found = {}
    THEN ReturnNone
    ELSE LET r == CHOOSE x \in found : TRUE IN
         ReturnDict([markdown_hash      |-> r.markdown_hash,
                     pdf_hash           |-> r.pdf_hash,
                     style_profile      |-> r.style_profile,
                     max_diagram_width  |-> r.max_diagram_width,
                     max_diagram_height |-> r.max_diagram_height,
                     page_margins       |-> r.page_margins,
                     has_page_numbers   |-> r.has_page_numbers,
                     updated_at         |-> r.updated_at])

\* Python's "not s" on a str or None.
Falsy(s) == s = None \/ s = ""

\* Mutant of ConfigMismatch: the diagram bounds are compared as str(current)
\* without the "is not None" guard, so an unset bound reads "None".
ConfigMismatch_StrOfNone(state, p) ==
    LET str(v) == IF v.t = "none" THEN "None" ELSE StrOrNone(v) IN
    \/ state.style_profile # p.style_profile
    \/ state.max_diagram_width # str(p.max_diagram_width)
    \/ state.max_diagram_height # str(p.max_diagram_height)
    \/ state.page_margins # p.page_margins
    \/ state.has_page_numbers # BoolInt(p.has_page_numbers)

\* Mutant of ConfigMismatch: the diagram bounds are compared as they were passed,
\* without str(): a bound passed as an int never equals the stored text.
ConfigMismatch_NoStr(state, p) ==
    LET raw(v) == IF v.t = "int" THEN "<int>" ELSE StrOrNone(v) IN
    \/ state.style_profile # p.style_profile
    \/ state.max_diagram_width # raw(p.max_diagram_width)
    \/ state.max_diagram_height # raw(p.max_diagram_height)
    \/ state.page_margins # p.page_margins
    \/ state.has_page_numbers # BoolInt(p.has_page_numbers)

\* Mutant of ConfigMismatch: the page-numbering comparison is left out.
ConfigMismatch_NoPageNumbers(state, p) ==
    \/ state.style_profile # p.style_profile
    \/ state.max_diagram_width # StrOrNone(p.max_diagram_width)
    \/ state.max_diagram_height # StrOrNone(p.max_diagram_height)
    \/ state.page_margins # p.page_margins

\* The five configuration comparisons of needs_regeneration, each "return True".
ConfigMismatch(state, p) ==
    \/ state.style_profile # p.style_profile
    \/ state.max_diagram_width # StrOrNone(p.max_diagram_width)
    \/ state.max_diagram_height # StrOrNone(p.max_diagram_height)
    \/ state.page_margins # p.page_margins
    \/ state.has_page_numbers # BoolInt(p.has_page_numbers)

\* Mutant of EarlyReturn: the source hash is not compared.
EarlyReturn_NoSourceCheck(got, p, f) ==
    CASE got.kind = "none" -> ReturnBool(TRUE)
      [] ConfigMismatch(got.val, p) -> ReturnBool(TRUE)
      [] Falsy(got.val.pdf_hash) -> ReturnBool(TRUE)
      [] ~f.exists -> ReturnBool(TRUE)
      [] OTHER -> NoReturn

\* Mutant of EarlyReturn: a missing output file is answered "return False".
EarlyReturn_MissingFileFresh(got, p, f) ==
    CASE got.kind = "none" -> ReturnBool(TRUE)
      [] got.val.markdown_hash # p.markdown_hash -> ReturnBool(TRUE)
      [] ConfigMismatch(got.val, p) -> ReturnBool(TRUE)
      [] Falsy(got.val.pdf_hash) -> ReturnBool(TRUE)
      [] ~f.exists -> ReturnBool(FALSE)
      [] OTHER -> NoReturn

\* Mutant of EarlyReturn: a record without output hash is answered "return False".
EarlyReturn_TrustsMissingHash(got, p, f) ==
    CASE got.kind = "none" -> ReturnBool(TRUE)
      [] got.val.markdown_hash # p.markdown_hash -> ReturnBool(TRUE)
      [] ConfigMismatch(got.val, p) -> ReturnBool(TRUE)
      [] Falsy(got.val.pdf_hash) -> ReturnBool(FALSE)
      [] ~f.exists -> ReturnBool(TRUE)
      [] OTHER -> NoReturn

\* needs_regeneration up to and including pdf_path.exists(): what one of the early
\* returns hands back (each is "return True"), or NoReturn when control reaches
\* the hashing of the file.
EarlyReturn(got, p, f) ==
    CASE got.kind = "none" -> ReturnBool(TRUE)
      [] got.val.markdown_hash # p.markdown_hash -> ReturnBool(TRUE)
      [] ConfigMismatch(got.val, p) -> ReturnBool(TRUE)
      [] Falsy(got.val.pdf_hash) -> ReturnBool(TRUE)
      [] ~f.exists -> ReturnBool(TRUE)
      [] OTHER -> NoReturn

\* Mutant of HashVerdict: the file is hashed and the digest is not compared.
HashVerdict_NoCompare(h, stored_pdf_hash) ==
    IF h.kind = "raise"
    THEN ReturnBool(TRUE)
    ELSE ReturnBool(FALSE)

\* Mutant of HashVerdict: no except clause, the RuntimeError reaches the caller.
HashVerdict_Propagates(h, stored_pdf_hash) ==
    IF h.kind = "raise"
    THEN h
    ELSE ReturnBool(h.val # stored_pdf_hash)

\* The try block of needs_regeneration: hash the file, compare with the stored
\* hash; a RuntimeError of calculate_file_hash is caught and answered True.
HashVerdict(h, stored_pdf_hash) ==
    IF h.kind = "raise"
    THEN ReturnBool(TRUE)
    ELSE ReturnBool(h.val # stored_pdf_hash)

\* needs_regeneration when nothing else runs between pdf_path.exists() and the
\* read of the file.
needs_regeneration(rows, a, f) ==
    LET p == NeedsParams(a)
        got == get_document_state(rows, p.filename)
        early == EarlyReturn(got, p, f)
    IN IF early # NoReturn
       THEN early
       ELSE HashVerdict(calculate_file_hash(f), got.val.pdf_hash)

\* Mutant of UpdateRows: the UPDATE has no WHERE clause.
UpdateRows_NoWhere(rows, filename, pdf_hash, ts) ==
    {[r EXCEPT !.pdf_hash = pdf_hash, !.updated_at = ts] : r \in rows}

\* UPDATE document_state SET pdf_hash = ?, updated_at = CURRENT_TIMESTAMP
\* WHERE filename = ?
UpdateRows(rows, filename, pdf_hash, ts) ==
    {IF r.filename = filename
     THEN [r EXCEPT !.pdf_hash = pdf_hash, !.updated_at = ts]
     ELSE r : r \in rows}

\* Mutant of DeleteRows: the DELETE has no WHERE clause.
DeleteRows_All(rows, filename) == {}

\* DELETE FROM document_state WHERE filename = ?
DeleteRows(rows, filename) == {r \in rows : r.filename # filename}

\* What get_all_documents can return: every row once, as a dict with all ten
\* columns, ORDER BY updated_at DESC; rows with equal updated_at come in an order
\* SQL leaves open.
get_all_documents(rows) ==
    {s \in [1 .. Cardinality(rows) -> rows] :
        /\ \A i, j \in DOMAIN s : i # j => s[i] # s[j]
        /\ \A i, j \in DOMAIN s : i < j => s[i].updated_at >= s[j].updated_at}

\* The columns of the table as _init_database and clear_all_documents create it.
Columns ==
    {"filename", "markdown_hash", "pdf_hash", "style_profile", "max_diagram_width",
     "max_diagram_height", "page_margins", "has_page_numbers", "created_at",
     "updated_at"}

\* Mutant of ClearRows: the rows are counted after the table was created again.
ClearRows_CountsAfterDrop(rows) == [rows |-> {}, ret |-> ReturnInt(0)]

\* clear_all_documents on the rows: SELECT COUNT(*), then the table is dropped
\* and created again, empty.
ClearRows(rows) == [rows |-> {}, ret |-> ReturnInt(Cardinality(rows))]

(***************************************************************************)
(* Storage failures.  Each operation runs                                  *)
(*     try: with sqlite3.connect(...) as conn: execute; commit             *)
(*     except sqlite3.Error as e: raise RuntimeError(...)                  *)
(* and sqlite3 can fail at the connect (file unreachable), at the execute  *)
(* (locked, missing table or column, I/O error) or at the commit.  The     *)
(* connection's context manager rolls the transaction back when the block  *)
(* is left by an exception.                                                *)
(***************************************************************************)
Faults == {"connect", "execute", "commit"}

\* Mutant of OnSqliteError: get_document_state answers None on a failure.
OnSqliteError_GetAbsent(op) ==
    IF op = "get_document_state" THEN ReturnNone ELSE Raise("RuntimeError")

\* The except clause of operation op.
OnSqliteError(op) == Raise("RuntimeError")

\* Mutant of Commit: the rows the transaction deleted come back with the commit.
Commit_KeepsReplaced(committed, working) == committed \cup working

\* Mutant of Rollback: the transaction's writes stay in the table.
Rollback_KeepsWorking(committed, working) == working

\* The rows after conn.rollback() and after conn.commit(): committed is the table
\* before the transaction, working the table as the transaction left it.
Rollback(committed, working) == committed
Commit(committed, working) == working

\* save_document_state with a failure (or "none") at one of its statements.
\* INSERT OR REPLACE checks NOT NULL, deletes the row in conflict and inserts the
\* new one; a failure of the execute can come after the delete.
SaveTransaction(rows, a, ts, fault) ==
    LET p == SaveParams(a)
        deleted == DeleteRows(rows, p.filename)
        inserted == deleted \cup {SavedRow(p, ts)}
        error == OnSqliteError("save_document_state")
    IN CASE fault = "connect" -> [rows |-> rows, ret |-> error]
         [] p.markdown_hash = None -> [rows |-> Rollback(rows, rows), ret |-> error]
         [] fault = "execute" -> [rows |-> Rollback(rows, deleted), ret |-> error]
         [] fault = "commit" -> [rows |-> Rollback(rows, inserted), ret |-> error]
         [] OTHER -> [rows |-> Commit(rows, inserted), ret |-> ReturnNone]

(***************************************************************************)
(* What happened to an identifier since its last successful save: the      *)
(* arguments of that save and the last thing the environment did to the    *)
(* identifier's output file since.  Kept for stating the properties; no    *)
(* operation reads it.                                                     *)
(***************************************************************************)
NoHist == [saved |-> FALSE, ev |-> "none"]
HistSaved(a) == [saved |-> TRUE, args |-> a, ev |-> "none"]

HistAfterEnv(p, ev) ==
    [id \in Ids |->
        IF OutPath(id) = p /\ hist[id].saved
        THEN [hist[id] EXCEPT !.ev = ev]
        ELSE hist[id]]

(***************************************************************************)
(* The inputs the caller draws from.                                       *)
(***************************************************************************)
\* The configuration of the spec's concrete scenario, with the converter's
\* default diagram bounds (ebook_converter.py:79) as ints.
BaseConfig ==
    [style_profile      |-> "a4-print",
     max_diagram_width  |-> DimInt(1680),
     max_diagram_height |-> DimInt(2240),
     page_margins       |-> "1in 0.75in",
     has_page_numbers   |-> TRUE]

\* BaseConfig and the configurations that differ from it in one parameter.
Configs ==
    {BaseConfig,
     [BaseConfig EXCEPT !.style_profile = "a4-screen"],
     [BaseConfig EXCEPT !.max_diagram_width = DimNone],
     [BaseConfig EXCEPT !.max_diagram_width = DimStr("1680")],
     [BaseConfig EXCEPT !.max_diagram_height = DimNone],
     [BaseConfig EXCEPT !.page_margins = None],
     [BaseConfig EXCEPT !.has_page_numbers = FALSE]}

SaveCall(id, s, o, cfg, n) ==
    [filename |-> id, markdown_hash |-> s, pdf_hash |-> o, nargs |-> n] @@ cfg

NeedsCall(id, s, path, cfg, n) ==
    [filename |-> id, markdown_hash |-> s, pdf_path |-> path, nargs |-> n] @@ cfg

\* "a.md" is saved with every hash and configuration, with a NULL source hash and
\* with the optional arguments left out; "b.md" stands by with one record.
SaveArgs ==
    {SaveCall("a.md", s, o, BaseConfig, 8) : s \in Digests, o \in Digests \cup {None}}
    \cup {SaveCall("a.md", HexDigest[1], HexDigest[1], cfg, 8) : cfg \in Configs}
    \cup {SaveCall("a.md", s, HexDigest[1], BaseConfig, 2) : s \in Digests}
    \cup {SaveCall("a.md", None, HexDigest[1], BaseConfig, 8),
          SaveCall("b.md", HexDigest[1], HexDigest[1], BaseConfig, 8)}

NeedsArgs ==
    {NeedsCall("a.md", s, OutPath("a.md"), BaseConfig, 8) : s \in Digests}
    \cup {NeedsCall("a.md", HexDigest[1], OutPath("a.md"), cfg, 8) : cfg \in Configs}
    \cup {NeedsCall("a.md", s, OutPath("a.md"), BaseConfig, 3) : s \in Digests}

(***************************************************************************)
(* The caller of the store.  An operation runs in one step, except         *)
(* needs_regeneration, whose hashing of the output file is a second step:  *)
(* the environment can act between pdf_path.exists() and the read.         *)
(* call, ret and local describe the operation that returned in the last    *)
(* step; every other step clears them.  The call of a save also tells which *)
(* rows it replaced, and the call of a get which save returned in the step *)
(* before it, if one did.                                                  *)
(***************************************************************************)
NoCall == [op |-> "none"]
NoLocal == [pdf_hash |-> None, hash |-> NoReturn]

Returned(op, a, r) ==
    /\ pc' = "idle"
    /\ call' = [op |-> op, args |-> a]
    /\ ret' = r

\* A step of the clock or of the environment: nothing returns in it.
NothingReturns ==
    /\ ret' = NoReturn
    /\ pc' = pc
    /\ IF pc = "hashing"
       THEN UNCHANGED <<call, local, conn, columns, tempDir>>
       ELSE call' = NoCall /\ local' = NoLocal

Get(id) ==
    /\ pc = "idle"
    /\ pc' = "idle"
    /\ call' = [op |-> "get_document_state", args |-> [filename |-> id],
                after |-> IF call.op = "save_document_state" THEN <<call.args, ret>>
                          ELSE <<>>]
    /\ ret' = get_document_state(db, id)
    /\ local' = NoLocal
    /\ UNCHANGED <<db, now, outFile, srcFile, hist, worker, clearer, conn, columns,
                   tempDir>>

Save(a) ==
    /\ pc = "idle"
    /\ LET res == SaveRows(db, a, now) IN
       /\ db' = res.rows
       /\ pc' = "idle"
       /\ call' = [op |-> "save_document_state", args |-> a,
                   replaced |-> RowsOf(db, a.filename)]
       /\ ret' = res.ret
       /\ hist' = IF res.ret.kind = "raise"
                  THEN hist
                  ELSE [hist EXCEPT ![a.filename] = HistSaved(a)]
    /\ local' = NoLocal
    /\ UNCHANGED <<now, outFile, srcFile, worker, clearer, conn, columns, tempDir>>

\* needs_regeneration from its first line to pdf_path.exists().
NeedsRegenerationCall(a) ==
    /\ pc = "idle"
    /\ LET p == NeedsParams(a)
           got == get_document_state(db, p.filename)
           early == EarlyReturn(got, p, outFile[p.pdf_path])
       IN IF early # NoReturn
          THEN /\ Returned("needs_regeneration", a, early)
               /\ local' = NoLocal
          ELSE /\ pc' = "hashing"
               /\ call' = [op |-> "needs_regeneration", args |-> a]
               /\ ret' = NoReturn
               /\ local' = [pdf_hash |-> got.val.pdf_hash, hash |-> NoReturn]
    /\ UNCHANGED <<db, now, outFile, srcFile, hist, worker, clearer, conn, columns,
                   tempDir>>

\* Mutant of NeedsRegenerationHash: a stale verdict is written back, by clearing
\* the output hash of the record.
NeedsRegenerationHash_WritesVerdict ==
    /\ pc = "hashing"
    /\ LET h == calculate_file_hash(outFile[call.args.pdf_path])
           verdict == HashVerdict(h, local.pdf_hash)
       IN /\ Returned("needs_regeneration", call.args, verdict)
          /\ local' = [local EXCEPT !.hash = h]
          /\ db' = IF verdict.val
                   THEN {IF r.filename = call.args.filename
                         THEN [r EXCEPT !.pdf_hash = None]
                         ELSE r : r \in db}
                   ELSE db
    /\ UNCHANGED <<now, outFile, srcFile, hist, worker, clearer, conn, columns,
                   tempDir>>

\* needs_regeneration from calculate_file_hash(pdf_path) to its return.
NeedsRegenerationHash ==
    /\ pc = "hashing"
    /\ LET h == calculate_file_hash(outFile[call.args.pdf_path]) IN
       /\ Returned("needs_regeneration", call.args, HashVerdict(h, local.pdf_hash))
       /\ local' = [local EXCEPT !.hash = h]
    /\ UNCHANGED <<db, now, outFile, srcFile, hist, worker, clearer, conn, columns,
                   tempDir>>

UpdatePdfHash(id, h) ==
    /\ pc = "idle"
    /\ db' = UpdateRows(db, id, h, now)
    /\ Returned("update_pdf_hash", [filename |-> id, pdf_hash |-> h], ReturnNone)
    /\ local' = NoLocal
    /\ UNCHANGED <<now, outFile, srcFile, hist, worker, clearer, conn, columns,
                   tempDir>>

\* The call of a remove also tells which rows it deleted.
Remove(id) ==
    /\ pc = "idle"
    /\ db' = DeleteRows(db, id)
    /\ pc' = "idle"
    /\ call' = [op |-> "remove_document", args |-> [filename |-> id],
                removed |-> RowsOf(db, id)]
    /\ ret' = ReturnNone
    /\ hist' = [hist EXCEPT ![id] = NoHist]
    /\ local' = NoLocal
    /\ UNCHANGED <<now, outFile, srcFile, worker, clearer, conn, columns, tempDir>>

\* clear_all_documents: SELECT COUNT(*), then DROP TABLE and CREATE TABLE.
Clear ==
    /\ pc = "idle"
    /\ db' = ClearRows(db).rows
    /\ Returned("clear_all_documents", [all |-> TRUE], ClearRows(db).ret)
    /\ columns' = Columns
    /\ hist' = [id \in Ids |-> NoHist]
    /\ local' = NoLocal
    /\ UNCHANGED <<now, outFile, srcFile, worker, clearer, conn, tempDir>>

\* get_all_documents.  Its call tells which save returned in the step before
\* it, if one did.
ListAll ==
    /\ pc = "idle"
    /\ pc' = "idle"
    /\ call' = [op |-> "get_all_documents", args |-> [all |-> TRUE],
                after |-> IF call.op = "save_document_state" THEN <<call.args, ret>>
                          ELSE <<>>]
    /\ \E s \in get_all_documents(db) : ret' = [kind |-> "list", val |-> s]
    /\ local' = NoLocal
    /\ UNCHANGED <<db, now, outFile, srcFile, hist, worker, clearer, conn, columns,
                   tempDir>>

(***************************************************************************)
(* clear_all_documents next to other users of the database file.  Its      *)
(* three statements run on one connection that is never told to begin a    *)
(* transaction: sqlite3 opens one implicitly before INSERT, UPDATE, DELETE *)
(* and REPLACE only, so the SELECT COUNT, DROP TABLE and CREATE TABLE each *)
(* take effect on their own and the other connections see the database     *)
(* between them.  clearer.count is the count read, clearer.dropped the     *)
(* number of rows the DROP removed.                                        *)
(***************************************************************************)
\* The table is missing between the DROP and the CREATE of a clear in progress.
TableExists == clearer.pc # "dropped"

\* cursor.execute("SELECT COUNT(*) FROM document_state"); count = fetchone()[0]
ClearCount ==
    /\ clearer.pc \in {"idle", "returned"}
    /\ clearer' = [pc |-> "counted", count |-> Cardinality(db), dropped |-> 0]
    /\ NothingReturns
    /\ UNCHANGED <<db, now, outFile, srcFile, hist, worker, conn, columns, tempDir>>

\* cursor.execute("DROP TABLE IF EXISTS document_state")
ClearDrop ==
    /\ clearer.pc = "counted"
    /\ clearer' = [clearer EXCEPT !.pc = "dropped", !.dropped = Cardinality(db)]
    /\ db' = {}
    /\ hist' = [id \in Ids |-> NoHist]
    /\ NothingReturns
    /\ UNCHANGED <<now, outFile, srcFile, worker, conn, columns, tempDir>>

\* cursor.execute("CREATE TABLE document_state (...)"); commit; return count
ClearCreate ==
    /\ clearer.pc = "dropped"
    /\ clearer' = [clearer EXCEPT !.pc = "returned"]
    /\ columns' = Columns
    /\ NothingReturns
    /\ UNCHANGED <<db, now, outFile, srcFile, hist, worker, conn, tempDir>>

(***************************************************************************)
(* The operations when sqlite3 fails in them.  The call records the        *)
(* statement that failed.                                                  *)
(***************************************************************************)
\* An operation that only reads, or whose single statement failed: nothing is
\* written and the except clause decides what the caller gets.
FailedCall(op, a, fault) ==
    /\ pc = "idle"
    /\ pc' = "idle"
    /\ call' = [op |-> op, args |-> a, fault |-> fault]
    /\ ret' = OnSqliteError(op)
    /\ local' = NoLocal
    /\ UNCHANGED <<db, now, outFile, srcFile, hist, worker, clearer, conn, columns,
                   tempDir>>

GetFails(id, fault) == FailedCall("get_document_state", [filename |-> id], fault)

RemoveFails(id, fault) == FailedCall("remove_document", [filename |-> id], fault)

ClearFails(fault) == FailedCall("clear_all_documents", [all |-> TRUE], fault)

ListAllFails(fault) == FailedCall("get_all_documents", [all |-> TRUE], fault)

\* needs_regeneration calls get_document_state outside any try block: what get
\* raises reaches the caller, what get returns is examined as usual.
NeedsRegenerationFails(a, fault) ==
    /\ pc = "idle"
    /\ pc' = "idle"
    /\ call' = [op |-> "needs_regeneration", args |-> a, fault |-> fault]
    /\ LET p == NeedsParams(a)
           got == OnSqliteError("get_document_state")
       IN ret' = IF got.kind = "raise"
                 THEN got
                 ELSE needs_regeneration(db, a, outFile[p.pdf_path])
    /\ local' = NoLocal
    /\ UNCHANGED <<db, now, outFile, srcFile, hist, worker, clearer, conn, columns,
                   tempDir>>

SaveFails(a, fault) ==
    /\ pc = "idle"
    /\ LET res == SaveTransaction(db, a, now, fault) IN
       /\ db' = res.rows
       /\ pc' = "idle"
       /\ call' = [op |-> "save_document_state", args |-> a,
                   replaced |-> RowsOf(db, a.filename), fault |-> fault]
       /\ ret' = res.ret
       /\ hist' = IF res.ret.kind = "raise"
                  THEN hist
                  ELSE [hist EXCEPT ![a.filename] = HistSaved(a)]
    /\ local' = NoLocal
    /\ UNCHANGED <<now, outFile, srcFile, worker, clearer, conn, columns, tempDir>>

(***************************************************************************)
(* The clock and the environment.                                          *)
(***************************************************************************)
Tick ==
    /\ now < MaxClock
    /\ now' = now + 1
    /\ NothingReturns
    /\ UNCHANGED <<db, outFile, srcFile, hist, worker, clearer, conn, columns, tempDir>>

\* Something other than the converter writes the output file (creates, edits or
\* overwrites it).
EnvWriteOutput(p, c) ==
    /\ outFile[p] # File(c, TRUE)
    /\ outFile' = [outFile EXCEPT ![p] = File(c, TRUE)]
    /\ hist' = HistAfterEnv(p, "written")
    /\ NothingReturns
    /\ UNCHANGED <<db, now, srcFile, worker, clearer, conn, columns, tempDir>>

EnvDeleteOutput(p) ==
    /\ outFile[p].exists
    /\ outFile' = [outFile EXCEPT ![p] = Missing]
    /\ hist' = HistAfterEnv(p, "deleted")
    /\ NothingReturns
    /\ UNCHANGED <<db, now, srcFile, worker, clearer, conn, columns, tempDir>>

\* The file's permissions change: it stays in place and can no longer be read.
EnvChmodOutput(p) ==
    /\ outFile[p].exists /\ outFile[p].readable
    /\ outFile' = [outFile EXCEPT ![p].readable = FALSE]
    /\ hist' = HistAfterEnv(p, "chmod")
    /\ NothingReturns
    /\ UNCHANGED <<db, now, srcFile, worker, clearer, conn, columns, tempDir>>

(***************************************************************************)
(* Spec: the store, its caller, the clock and the environment.             *)
(***************************************************************************)
\* Two processes that save at the same time (two converter runs on one database
\* file), none of them inside save_document_state yet.
Savers == {"s1", "s2"}
NoConn ==
    [pc |-> "idle", open |-> FALSE, waited |-> FALSE, op |-> "none",
     args |-> [filename |-> None], working |-> {}, row |-> None, seq |-> 0,
     ret |-> NoReturn]
NoConns == [s \in Savers |-> NoConn]

\* temp_dir after the constructor's mkdir: there, and nothing written to it.
NoTempDir == [exists |-> TRUE, wrote |-> {}]

NoWorker == [pc |-> "off"]
NoClearer == [pc |-> "idle", count |-> 0, dropped |-> 0]

\* The output files the environment touches.
EnvPaths == {OutPath("a.md")}

Init ==
    /\ db = {}
    /\ now = 0
    /\ outFile = [p \in Paths |-> Missing]
    /\ srcFile = [id \in Ids |-> 1]
    /\ pc = "idle"
    /\ local = NoLocal
    /\ call = NoCall
    /\ ret = NoReturn
    /\ hist = [id \in Ids |-> NoHist]
    /\ worker = [id \in Ids |-> NoWorker]
    /\ clearer = NoClearer
    /\ conn = NoConns
    /\ columns = Columns
    /\ tempDir = NoTempDir

Next ==
    \/ \E id \in Ids : Get(id)
    \/ \E a \in SaveArgs : Save(a)
    \/ \E a \in NeedsArgs : NeedsRegenerationCall(a)
    \/ NeedsRegenerationHash
    \/ \E id \in Ids, h \in Digests : UpdatePdfHash(id, h)
    \/ \E id \in Ids : Remove(id)
    \/ Clear
    \/ \E p \in EnvPaths, c \in Contents : EnvWriteOutput(p, c)
    \/ \E p \in EnvPaths : EnvDeleteOutput(p)
    \/ \E p \in EnvPaths : EnvChmodOutput(p)

Spec == Init /\ [][Next]_vars

(***************************************************************************)
(* SpecTime: the store with the clock running.  Both identifiers are saved *)
(* and read back; the configurations are fewer.                            *)
(***************************************************************************)
SaveArgsTime ==
    {SaveCall(id, s, s, BaseConfig, 8) : id \in Ids, s \in Digests}
    \cup {SaveCall("a.md", HexDigest[1], None,
                   [BaseConfig EXCEPT !.has_page_numbers = FALSE], 8),
          SaveCall("a.md", HexDigest[1], HexDigest[1],
                   [BaseConfig EXCEPT !.max_diagram_width = DimStr("1680")], 8),
          SaveCall("b.md", HexDigest[1], HexDigest[1], BaseConfig, 2)}

NextTime ==
    \/ Tick
    \/ ListAll
    \/ \E id \in Ids : Get(id)
    \/ \E a \in SaveArgsTime : Save(a)
    \/ \E id \in Ids, h \in Digests : UpdatePdfHash(id, h)
    \/ \E id \in Ids : Remove(id)

SpecTime == Init /\ [][NextTime]_vars

(***************************************************************************)
(* SpecFault: the store with sqlite3 failing in any operation, at any of   *)
(* its statements, next to the same operations succeeding.                 *)
(***************************************************************************)
SaveArgsFault ==
    {SaveCall("a.md", s, s, BaseConfig, 8) : s \in Digests}
    \cup {SaveCall("a.md", HexDigest[1], None,
                   [BaseConfig EXCEPT !.style_profile = "a4-screen"], 8),
          SaveCall("a.md", None, HexDigest[1], BaseConfig, 8),
          SaveCall("b.md", HexDigest[1], HexDigest[1], BaseConfig, 8)}

NeedsArgsFault ==
    {NeedsCall("a.md", s, OutPath("a.md"), BaseConfig, 8) : s \in Digests}

NextFault ==
    \/ \E id \in Ids : Get(id)
    \/ \E a \in SaveArgsFault : Save(a)
    \/ \E a \in NeedsArgsFault : NeedsRegenerationCall(a)
    \/ \E id \in Ids : Remove(id)
    \/ Clear
    \/ ListAll
    \/ \E id \in Ids, fault \in Faults : GetFails(id, fault)
    \/ \E a \in SaveArgsFault, fault \in Faults : SaveFails(a, fault)
    \/ \E a \in NeedsArgsFault, fault \in Faults : NeedsRegenerationFails(a, fault)
    \/ \E id \in Ids, fault \in Faults : RemoveFails(id, fault)
    \/ \E fault \in Faults : ClearFails(fault)
    \/ \E fault \in Faults : ListAllFails(fault)

SpecFault == Init /\ [][NextFault]_vars

(***************************************************************************)
(* SpecClear: a caller of the store next to a process that runs            *)
(* clear_all_documents.  While the table is missing, the caller's          *)
(* statements fail with "no such table" (sqlite3.OperationalError).        *)
(***************************************************************************)
NextClear ==
    \/ ClearCount
    \/ ClearDrop
    \/ ClearCreate
    \/ TableExists /\ \E id \in Ids : Get(id)
    \/ TableExists /\ \E a \in SaveArgsFault : Save(a)
    \/ TableExists /\ \E a \in NeedsArgsFault : NeedsRegenerationCall(a)
    \/ TableExists /\ \E id \in Ids : Remove(id)
    \/ ~TableExists /\ \E id \in Ids : GetFails(id, "execute")
    \/ ~TableExists /\ \E a \in SaveArgsFault : SaveFails(a, "execute")
    \/ ~TableExists /\ \E a \in NeedsArgsFault : NeedsRegenerationFails(a, "execute")
    \/ ~TableExists /\ \E id \in Ids : RemoveFails(id, "execute")

SpecClear == Init /\ [][NextClear]_vars

(***************************************************************************)
(* The converters.  MarkdownToEbookConverter (formats pdf, epub, mobi) and *)
(* the older MarkdownToPDFConverter of convert_md_to_pdf.py ("legacy-pdf", *)
(* which calls the store with four positional arguments) run one worker    *)
(* per document.  A worker's steps are the points where it reads the       *)
(* source file or the store:                                               *)
(*   start    _convert_single_file: hash the source, ask needs_regeneration *)
(*   hash     _convert_md_to_format / _convert_md_to_pdf: hash the source  *)
(*   render   read the source, run the pipeline, write the output file     *)
(*   save     hash the output and call save_document_state                 *)
(* and it ends skipped, converted or failed; a later run starts it again.  *)
(* worker[id].content is the source content the output file on disk was    *)
(* rendered from (0: never rendered).                                      *)
(***************************************************************************)
Formats == {"pdf", "epub", "mobi", "legacy-pdf"}

\* STYLE_PROFILES: the style profiles that support a format (two of the three
\* kindle profiles; only "kindle-paperwhite-11" has a device CSS file).
Profiles(fmt) ==
    IF fmt \in {"epub", "mobi"}
    THEN {"kindle-basic", "kindle-paperwhite-11"}
    ELSE {"a4-print"}

\* The page margins a converter can be constructed with (page_margins, default
\* "1in 0.75in").
Margins == {"1in 0.75in", "2cm"}

\* A worker about to start.  Beside its position and locals it carries
\*   margins     self.page_margins of its converter
\*   profile     self.style_profile of its converter
\*   images      the image files its document embeds
\* and, for stating the properties,
\*   config      the configuration it passed in its last call of the store
\*   before      the identifier's rows when this run asked needs_regeneration
\*   rendered    this run's pipeline wrote the output file
\*   raised      the store raised in this run's save
\*   outMargins  the margins the output file on disk was rendered with
\*   edited      the source was edited since this run asked needs_regeneration
\*   last        how the run before this one ended
\*   counted     the counter of convert_all this run's document went to.
NewWorker(fmt, profile) ==
    [pc |-> "start", fmt |-> fmt, profile |-> profile, images |-> {},
     checked |-> None, hash |-> None, content |-> 0,
     margins |-> "1in 0.75in", config |-> None, before |-> {}, rendered |-> FALSE,
     raised |-> FALSE, outMargins |-> None, edited |-> FALSE, last |-> "none",
     counted |-> "none"]

\* The render pipeline, an external collaborator: the bytes of the output are a
\* function of the bytes of the source.
Rendered(c) == (c % NumContents) + 1

\* The source file, always present and readable.
SourceHash(id) == calculate_file_hash(File(srcFile[id], TRUE)).val

\* The configuration arguments of the ebook converter's calls:
\* self.style_profile, self.diagram_width, self.diagram_height, None, False.
ConverterConfig(profile) ==
    [style_profile      |-> profile,
     max_diagram_width  |-> DimInt(1680),
     max_diagram_height |-> DimInt(2240),
     page_margins       |-> None,
     has_page_numbers   |-> FALSE]

\* The calls of worker w; convert_md_to_pdf.py passes four arguments.
ConverterNeedsCall(w, id, h) ==
    NeedsCall(id, h, OutPath(id), ConverterConfig(w.profile),
              IF w.fmt = "legacy-pdf" THEN 4 ELSE 8)

ConverterSaveCall(w, id, h, o) ==
    SaveCall(id, h, o, ConverterConfig(w.profile),
             IF w.fmt = "legacy-pdf" THEN 4 ELSE 8)

\* The configuration the store receives with a converter's call: the arguments
\* passed and the defaults of those left out.
PassedConfig(w, id) ==
    LET p == NeedsParams(ConverterNeedsCall(w, id, None)) IN
    [style_profile      |-> p.style_profile,
     max_diagram_width  |-> p.max_diagram_width,
     max_diagram_height |-> p.max_diagram_height,
     page_margins       |-> p.page_margins,
     has_page_numbers   |-> p.has_page_numbers]

\* The paths under temp_dir a worker writes while it renders document id: what
\* the file name is built from decides who else writes the same path.
\*   diagram images       mermaid_diagram_{file_id}_{i}.png, plantuml_diagram_...
\*   embedded images      embedded_{image stem}_{image suffix}
\*   temp markdown        temp_{md_file.name}
\*   HTML, enhanced HTML  {stem}.html, enhanced_{stem}.html     (pdf)
\*   intermediate EPUB    {stem}.epub                           (mobi)
\*   device CSS           kindle_paperwhite_11.css              (epub, mobi)
TempPaths(w, id) ==
    {[name |-> n, of |-> id] : n \in {"mermaid_diagram", "plantuml_diagram", "temp_md"}}
    \cup {[name |-> "embedded", of |-> img] : img \in w.images}
    \cup (IF w.fmt \in {"pdf", "legacy-pdf"}
          THEN {[name |-> n, of |-> id] : n \in {"html", "enhanced_html"}}
          ELSE {})
    \cup (IF w.fmt = "mobi" THEN {[name |-> "epub", of |-> id]} ELSE {})
    \cup (IF w.fmt \in {"epub", "mobi"} /\ w.profile = "kindle-paperwhite-11"
          THEN {[name |-> "kindle_paperwhite_11.css", of |-> "temp_dir"]}
          ELSE {})

\* tempDir.wrote after worker id wrote its paths: each path with its writer.
Wrote(id) ==
    tempDir.wrote \cup {[path |-> p, by |-> id] : p \in TempPaths(worker[id], id)}

\* _convert_single_file up to the decision to skip or convert.
WorkerCheck(id) ==
    /\ worker[id].pc = "start"
    /\ LET h == SourceHash(id)
           verdict == needs_regeneration(db, ConverterNeedsCall(worker[id], id, h),
                                         outFile[OutPath(id)])
       IN worker' = [worker EXCEPT ![id].checked = h,
                                   ![id].config = PassedConfig(worker[id], id),
                                   ![id].before = RowsOf(db, id),
                                   ![id].edited = FALSE,
                                   ![id].pc = IF verdict.val THEN "hash" ELSE "skipped"]
    /\ UNCHANGED <<db, now, outFile, srcFile, pc, local, call, ret, hist, clearer, conn,
                   columns, tempDir>>

\* current_markdown_hash = calculate_file_hash(md_file) at the head of
\* _convert_md_to_format and of _convert_md_to_pdf.
WorkerHash(id) ==
    /\ worker[id].pc = "hash"
    /\ worker' = [worker EXCEPT ![id].hash = SourceHash(id), ![id].pc = "render"]
    /\ UNCHANGED <<db, now, outFile, srcFile, pc, local, call, ret, hist, clearer, conn,
                   columns, tempDir>>

\* The pipeline reads the source and writes the output file.  Then
\*   pdf         _convert_to_pdf evaluates the undefined names filename and
\*               current_markdown_hash: NameError, caught, return False
\*   epub        _convert_to_epub returns True; nothing is saved
\*   mobi, legacy-pdf   go on to save.
WorkerRender(id) ==
    /\ worker[id].pc = "render"
    /\ outFile' = [outFile EXCEPT ![OutPath(id)] = File(Rendered(srcFile[id]), TRUE)]
    /\ tempDir' = [tempDir EXCEPT !.wrote = Wrote(id)]
    /\ worker' = [worker EXCEPT
                     ![id].content = srcFile[id],
                     ![id].rendered = TRUE,
                     ![id].outMargins = worker[id].margins,
                     ![id].pc = CASE worker[id].fmt = "pdf" -> "failed"
                                  [] worker[id].fmt = "epub" -> "converted"
                                  [] OTHER -> "save"]
    /\ UNCHANGED <<db, now, srcFile, pc, local, call, ret, hist, clearer, conn,
                   columns>>

\* Mutant of WorkerRenderFails: the state is saved before the last step of the
\* pipeline, and that step fails.
WorkerRenderFails_SavesFirst(id) ==
    /\ worker[id].pc = "render"
    /\ db' = SaveRows(db, ConverterSaveCall(worker[id], id, worker[id].hash, None),
                      now).rows
    /\ worker' = [worker EXCEPT ![id].pc = "failed"]
    /\ UNCHANGED <<now, outFile, srcFile, pc, local, call, ret, hist, clearer, conn,
                   columns, tempDir>>

\* A step of the pipeline fails before the output file is written (pandoc's
\* return code, an exception): return False.
WorkerRenderFails(id) ==
    /\ worker[id].pc = "render"
    /\ worker' = [worker EXCEPT ![id].pc = "failed"]
    /\ UNCHANGED <<db, now, outFile, srcFile, pc, local, call, ret, hist, clearer, conn,
                   columns, tempDir>>

\* mobi: current_markdown_hash = calculate_file_hash(md_file) is computed here,
\* after the conversion; legacy-pdf saves the hash computed before the read.
WorkerSave(id) ==
    /\ worker[id].pc = "save"
    /\ LET h == IF worker[id].fmt = "mobi" THEN SourceHash(id) ELSE worker[id].hash
           o == calculate_file_hash(outFile[OutPath(id)]).val
       IN db' = SaveRows(db, ConverterSaveCall(worker[id], id, h, o), now).rows
    /\ worker' = [worker EXCEPT ![id].pc = "converted",
                                ![id].config = PassedConfig(worker[id], id)]
    /\ UNCHANGED <<now, outFile, srcFile, pc, local, call, ret, hist, clearer, conn,
                   columns, tempDir>>

\* save_document_state raises (sqlite3 failed at the connect, the execute or the
\* commit): "except Exception" of the converter logs it and returns False.
WorkerSaveFails(id, fault) ==
    /\ worker[id].pc = "save"
    /\ LET h == IF worker[id].fmt = "mobi" THEN SourceHash(id) ELSE worker[id].hash
           o == calculate_file_hash(outFile[OutPath(id)]).val
       IN db' = SaveTransaction(db, ConverterSaveCall(worker[id], id, h, o), now,
                                fault).rows
    /\ worker' = [worker EXCEPT ![id].pc = "failed", ![id].raised = TRUE,
                                ![id].config = PassedConfig(worker[id], id)]
    /\ UNCHANGED <<now, outFile, srcFile, pc, local, call, ret, hist, clearer, conn,
                   columns, tempDir>>

\* The loop of _convert_all_sequential and _convert_all_parallel over the result
\* of _convert_single_file: on success it hashes the source and asks
\* needs_regeneration again, and counts the document as skipped when the answer
\* is False and as converted when it is True.  A failure goes to failed_count
\* (parallel) or to no counter (sequential).
WorkerCount(id) ==
    /\ worker[id].pc \in {"skipped", "converted", "failed"}
    /\ worker[id].counted = "none"
    /\ LET verdict == needs_regeneration(db, ConverterNeedsCall(worker[id], id,
                                                                SourceHash(id)),
                                         outFile[OutPath(id)])
       IN worker' = [worker EXCEPT
                        ![id].counted = CASE worker[id].pc = "failed" -> "failed"
                                          [] verdict.val -> "success"
                                          [] OTHER -> "skipped"]
    /\ UNCHANGED <<db, now, outFile, srcFile, pc, local, call, ret, hist, clearer, conn,
                   columns, tempDir>>

\* The end of convert_all (shutil.rmtree(self.temp_dir)) and the start of the next
\* run (the constructor's mkdir).
WorkerRestart(id) ==
    /\ worker[id].pc \in {"skipped", "converted", "failed"}
    /\ worker[id].counted # "none"
    /\ worker' = [worker EXCEPT ![id].pc = "start", ![id].checked = None,
                                ![id].hash = None, ![id].rendered = FALSE,
                                ![id].raised = FALSE,
                                ![id].last = worker[id].pc, ![id].counted = "none"]
    /\ tempDir' = NoTempDir
    /\ UNCHANGED <<db, now, outFile, srcFile, pc, local, call, ret, hist, clearer, conn,
                   columns>>

\* The converter of the next run is constructed with other page margins.
EnvChangeMargins(id, m) ==
    /\ worker[id].pc = "start"
    /\ worker[id].margins # m
    /\ worker' = [worker EXCEPT ![id].margins = m]
    /\ UNCHANGED <<db, now, outFile, srcFile, pc, local, call, ret, hist, clearer, conn,
                   columns, tempDir>>

\* The user edits the markdown file.
EnvWriteSource(id, c) ==
    /\ srcFile[id] # c
    /\ srcFile' = [srcFile EXCEPT ![id] = c]
    /\ worker' = IF worker[id].pc = "off"
                 THEN worker
                 ELSE [worker EXCEPT ![id].edited = TRUE]
    /\ UNCHANGED <<db, now, outFile, pc, local, call, ret, hist, clearer, conn, columns,
                   tempDir>>

(***************************************************************************)
(* SpecConv: one converter, of any format, converting "a.md" run after run *)
(* while the source file is edited.                                        *)
(***************************************************************************)
ConvIds == {"a.md"}

InitConv ==
    /\ db = {}
    /\ now = 0
    /\ outFile = [p \in Paths |-> Missing]
    /\ srcFile \in [Ids -> Contents]
    /\ pc = "idle"
    /\ local = NoLocal
    /\ call = NoCall
    /\ ret = NoReturn
    /\ hist = [id \in Ids |-> NoHist]
    /\ \E fmt \in Formats : \E profile \in Profiles(fmt) :
          worker = [id \in Ids |->
                       IF id \in ConvIds THEN NewWorker(fmt, profile) ELSE NoWorker]
    /\ clearer = NoClearer
    /\ conn = NoConns
    /\ columns = Columns
    /\ tempDir = NoTempDir

NextConv ==
    \/ \E id \in ConvIds : WorkerCheck(id)
    \/ \E id \in ConvIds : WorkerHash(id)
    \/ \E id \in ConvIds : WorkerRender(id)
    \/ \E id \in ConvIds : WorkerRenderFails(id)
    \/ \E id \in ConvIds : WorkerSave(id)
    \/ \E id \in ConvIds, fault \in Faults : WorkerSaveFails(id, fault)
    \/ \E id \in ConvIds : WorkerCount(id)
    \/ \E id \in ConvIds : WorkerRestart(id)
    \/ \E id \in ConvIds, m \in Margins : EnvChangeMargins(id, m)
    \/ \E id \in ConvIds, c \in Contents : EnvWriteSource(id, c)

SpecConv == InitConv /\ [][NextConv]_vars

(***************************************************************************)
(* SpecPar: _convert_all_parallel on two documents with one converter: the *)
(* two workers run side by side in the ThreadPoolExecutor, the loop over   *)
(* as_completed counts them, and temp_dir is removed at the end.           *)
(***************************************************************************)
\* The image files a document can embed.
ImageFiles == {"logo.png"}

\* shutil.rmtree(self.temp_dir, ignore_errors=True), after the "with
\* ThreadPoolExecutor" block and the counting loop.
Cleanup ==
    /\ tempDir.exists
    /\ \A id \in Ids : worker[id].counted # "none"
    /\ tempDir' = [tempDir EXCEPT !.exists = FALSE]
    /\ UNCHANGED <<db, now, outFile, srcFile, pc, local, call, ret, hist, worker,
                   clearer, conn, columns>>

InitPar ==
    /\ db = {}
    /\ now = 0
    /\ outFile = [p \in Paths |-> Missing]
    /\ srcFile \in [Ids -> Contents]
    /\ pc = "idle"
    /\ local = NoLocal
    /\ call = NoCall
    /\ ret = NoReturn
    /\ hist = [id \in Ids |-> NoHist]
    /\ \E fmt \in Formats : \E profile \in Profiles(fmt) :
          \E imgs \in [Ids -> SUBSET ImageFiles] :
             worker = [id \in Ids |->
                          [NewWorker(fmt, profile) EXCEPT !.images = imgs[id]]]
    /\ clearer = NoClearer
    /\ conn = NoConns
    /\ columns = Columns
    /\ tempDir = NoTempDir

NextPar ==
    \/ \E id \in Ids : WorkerCheck(id)
    \/ \E id \in Ids : WorkerHash(id)
    \/ \E id \in Ids : WorkerRender(id)
    \/ \E id \in Ids : WorkerRenderFails(id)
    \/ \E id \in Ids : WorkerSave(id)
    \/ \E id \in Ids, fault \in Faults : WorkerSaveFails(id, fault)
    \/ \E id \in Ids : WorkerCount(id)
    \/ Cleanup

SpecPar == InitPar /\ [][NextPar]_vars

(***************************************************************************)
(* SpecRace: two processes in the store at the same time, most of all in   *)
(* save_document_state.  Outside the store (conn[s].pc "idle" or           *)
(* "returned") a process does what a converter worker does around its      *)
(* store calls: it renders.  A save runs                                   *)
(*     with sqlite3.connect(db_path) as conn:                              *)
(*         cursor.execute("INSERT OR REPLACE ...")   -- begins a transaction *)
(*         conn.commit()                                                   *)
(* on its own connection.  SQLite lets one connection write at a time: the *)
(* execute of the other waits for the lock (sqlite3's busy timeout, 5 s)   *)
(* and fails with "database is locked" when the lock is not released in    *)
(* time.  conn[s].working is the table as the open transaction of s sees   *)
(* it; conn[s].row, conn[s].seq and conn[s].waited record the row s wrote, *)
(* the order of the commits and whether s found the lock taken.            *)
(***************************************************************************)
\* Mutant of OpenAfterWith: the block has no context manager behind it, and a
\* transaction the exception interrupted stays open.
OpenAfterWith_NoRollback(raised) == raised

\* Whether the connection has a transaction open once the "with" block is left:
\* sqlite3.Connection.__exit__ commits when the block ends normally and rolls
\* back when an exception leaves it.
OpenAfterWith(raised) == FALSE

\* Another connection holds the write lock.
Locked(s) == \E o \in Savers \ {s} : conn[o].open

\* The commits of this round so far.
Commits == Cardinality({o \in Savers : conn[o].seq > 0})

\* s calls save_document_state(a) and finds the database locked: it waits.
SaverWaits(s, a) ==
    /\ conn[s].pc = "idle"
    /\ Locked(s)
    /\ conn' = [conn EXCEPT ![s] = [NoConn EXCEPT !.pc = "waiting", !.waited = TRUE,
                                                  !.op = "save_document_state",
                                                  !.args = a]]
    /\ UNCHANGED <<db, now, outFile, srcFile, pc, local, call, ret, hist, worker,
                   clearer, columns, tempDir>>

\* The INSERT OR REPLACE of s, at once or after the wait: the transaction begins
\* and holds the new row.
SaverExecute(s, a) ==
    /\ \/ conn[s].pc = "idle"
       \/ conn[s].pc = "waiting" /\ conn[s].args = a
    /\ ~Locked(s)
    /\ SaveParams(a).markdown_hash # None
    /\ LET row == SavedRow(SaveParams(a), now) IN
       conn' = [conn EXCEPT ![s] = [@ EXCEPT !.pc = "executed", !.open = TRUE,
                                             !.op = "save_document_state",
                                             !.args = a, !.row = row,
                                             !.working = InsertOrReplace(db, row)]]
    /\ UNCHANGED <<db, now, outFile, srcFile, pc, local, call, ret, hist, worker,
                   clearer, columns, tempDir>>

\* The execute fails: the wait for the lock timed out, or the source hash is
\* NULL.  Nothing was written; RuntimeError.
SaverExecuteFails(s, a) ==
    /\ \/ conn[s].pc = "waiting" /\ conn[s].args = a /\ Locked(s)
       \/ conn[s].pc = "idle" /\ SaveParams(a).markdown_hash = None /\ ~Locked(s)
    /\ conn' = [conn EXCEPT ![s] = [@ EXCEPT !.pc = "returned", !.args = a,
                                             !.op = "save_document_state",
                                             !.open = OpenAfterWith(TRUE),
                                             !.ret = OnSqliteError("save_document_state")]]
    /\ UNCHANGED <<db, now, outFile, srcFile, pc, local, call, ret, hist, worker,
                   clearer, columns, tempDir>>

\* The UPDATE of update_pdf_hash or the DELETE of remove_document, each in a
\* "with" block like the one of save_document_state.
SaverWrites(s, op, id) ==
    /\ conn[s].pc = "idle"
    /\ ~Locked(s)
    /\ conn' = [conn EXCEPT ![s] =
                   [@ EXCEPT !.pc = "executed", !.open = TRUE, !.op = op,
                             !.args = [filename |-> id],
                             !.working = IF op = "update_pdf_hash"
                                         THEN UpdateRows(db, id, HexDigest[2], now)
                                         ELSE DeleteRows(db, id)]]
    /\ UNCHANGED <<db, now, outFile, srcFile, pc, local, call, ret, hist, worker,
                   clearer, columns, tempDir>>

\* get_document_state on the connection of s: a SELECT begins no transaction, and
\* it sees the committed rows.
SaverReads(s, id) ==
    /\ conn[s].pc = "idle"
    /\ conn' = [conn EXCEPT ![s] = [@ EXCEPT !.pc = "returned",
                                             !.op = "get_document_state",
                                             !.args = [filename |-> id],
                                             !.open = OpenAfterWith(FALSE),
                                             !.ret = get_document_state(db, id)]]
    /\ UNCHANGED <<db, now, outFile, srcFile, pc, local, call, ret, hist, worker,
                   clearer, columns, tempDir>>

\* conn.commit() of s, the end of the block and the return.
SaverCommit(s) ==
    /\ conn[s].pc = "executed"
    /\ db' = Commit(db, conn[s].working)
    /\ hist' = CASE conn[s].op = "save_document_state" ->
                      [hist EXCEPT ![conn[s].args.filename] = HistSaved(conn[s].args)]
                 [] conn[s].op = "remove_document" ->
                      [hist EXCEPT ![conn[s].args.filename] = NoHist]
                 [] OTHER -> hist
    /\ conn' = [conn EXCEPT ![s] = [@ EXCEPT !.pc = "returned", !.seq = Commits + 1,
                                             !.open = OpenAfterWith(FALSE),
                                             !.ret = ReturnNone]]
    /\ UNCHANGED <<now, outFile, srcFile, pc, local, call, ret, worker, clearer,
                   columns, tempDir>>

\* conn.commit() of s fails: the block is left by the exception, the
\* transaction is rolled back; RuntimeError.
SaverCommitFails(s) ==
    /\ conn[s].pc = "executed"
    /\ db' = Rollback(db, conn[s].working)
    /\ conn' = [conn EXCEPT ![s] = [@ EXCEPT !.pc = "returned",
                                             !.open = OpenAfterWith(TRUE),
                                             !.ret = OnSqliteError(conn[s].op)]]
    /\ UNCHANGED <<now, outFile, srcFile, pc, local, call, ret, hist, worker, clearer,
                   columns, tempDir>>

\* Both calls are over; the two processes save again.
SaversAgain ==
    /\ \A s \in Savers : conn[s].pc = "returned"
    /\ conn' = NoConns
    /\ UNCHANGED <<db, now, outFile, srcFile, pc, local, call, ret, hist, worker,
                   clearer, columns, tempDir>>

NextRace ==
    \/ Tick
    \/ \E s \in Savers, a \in SaveArgsFault : SaverWaits(s, a)
    \/ \E s \in Savers, a \in SaveArgsFault : SaverExecute(s, a)
    \/ \E s \in Savers, a \in SaveArgsFault : SaverExecuteFails(s, a)
    \/ \E s \in Savers, id \in Ids :
          \/ SaverWrites(s, "update_pdf_hash", id)
          \/ SaverWrites(s, "remove_document", id)
    \/ \E s \in Savers, id \in Ids : SaverReads(s, id)
    \/ \E s \in Savers : SaverCommit(s)
    \/ \E s \in Savers : SaverCommitFails(s)
    \/ SaversAgain

SpecRace == Init /\ [][NextRace]_vars

(***************************************************************************)
(* SpecSchema: the store opened on a database file whose table was created *)
(* by the older store (src/document_verification.py), which has no columns *)
(* for the diagram bounds, the margins and the page numbering.  A          *)
(* statement that names a column the table lacks fails in the execute with *)
(* "no such column" (sqlite3.OperationalError).                            *)
(***************************************************************************)
\* The columns of the table as the older store creates it.
OldColumns ==
    {"filename", "markdown_hash", "pdf_hash", "style_profile", "created_at",
     "updated_at"}

\* A row the older store saved.
LegacyRow(id, s, o, ts) ==
    [filename |-> id, markdown_hash |-> s, pdf_hash |-> o, style_profile |-> "a4-print",
     created_at |-> ts, updated_at |-> ts]

\* The columns the statement of each operation names.
StatementColumns(op) ==
    CASE op \in {"get_document_state", "needs_regeneration", "save_document_state"} ->
            Columns \ {"created_at"}
      [] op = "get_all_documents" -> Columns
      [] op = "update_pdf_hash" -> {"pdf_hash", "updated_at", "filename"}
      [] op = "remove_document" -> {"filename"}
      [] OTHER -> {}

\* The statement of op can be prepared on the table as it is.
Executes(op) == StatementColumns(op) \subseteq columns

\* Mutant of InitDatabase: the constructor migrates a table it finds, adding the
\* columns it lacks.
InitDatabase_Migrates(cols) == Columns

\* CREATE TABLE IF NOT EXISTS in _init_database: a table that is there (cols is
\* not empty) is left as it is.
InitDatabase(cols) == IF cols = {} THEN Columns ELSE cols

\* DocumentStateManager(db_path): the constructor.
OpenStore ==
    /\ pc = "idle"
    /\ columns' = InitDatabase(columns)
    /\ Returned("_init_database", [all |-> TRUE], ReturnNone)
    /\ local' = NoLocal
    /\ UNCHANGED <<db, now, outFile, srcFile, hist, worker, clearer, conn, tempDir>>

InitSchema ==
    /\ db \in {{}, {LegacyRow("a.md", HexDigest[1], HexDigest[1], 0)},
               {LegacyRow("a.md", HexDigest[1], None, 0),
                LegacyRow("b.md", HexDigest[2], HexDigest[2], 0)}}
    /\ now = 0
    /\ outFile = [p \in Paths |-> Missing]
    /\ srcFile = [id \in Ids |-> 1]
    /\ pc = "idle"
    /\ local = NoLocal
    /\ call = NoCall
    /\ ret = NoReturn
    /\ hist = [id \in Ids |-> NoHist]
    /\ worker = [id \in Ids |-> NoWorker]
    /\ clearer = NoClearer
    /\ conn = NoConns
    /\ columns = OldColumns
    /\ tempDir = NoTempDir

NextSchema ==
    \/ OpenStore
    \/ Clear
    \/ \E p \in EnvPaths, c \in Contents : EnvWriteOutput(p, c)
    \/ Executes("get_document_state") /\ \E id \in Ids : Get(id)
    \/ Executes("save_document_state") /\ \E a \in SaveArgsFault : Save(a)
    \/ Executes("needs_regeneration") /\ \E a \in NeedsArgsFault : NeedsRegenerationCall(a)
    \/ NeedsRegenerationHash
    \/ Executes("update_pdf_hash") /\ \E id \in Ids : UpdatePdfHash(id, HexDigest[2])
    \/ Executes("remove_document") /\ \E id \in Ids : Remove(id)
    \/ ~Executes("get_document_state") /\ \E id \in Ids : GetFails(id, "execute")
    \/ ~Executes("save_document_state")
          /\ \E a \in SaveArgsFault : SaveFails(a, "execute")
    \/ ~Executes("needs_regeneration")
          /\ \E a \in NeedsArgsFault : NeedsRegenerationFails(a, "execute")

SpecSchema == InitSchema /\ [][NextSchema]_vars

(***************************************************************************)
(* Vocabulary of the properties.                                           *)
(***************************************************************************)
\* needs_regeneration returned (or raised) in the last step.
NeedsReturned ==
    /\ pc = "idle"
    /\ call.op = "needs_regeneration"
    /\ ret.kind # "idle"

\* save_document_state returned without raising in the last step.
SaveReturned ==
    /\ call.op = "save_document_state"
    /\ ret.kind = "none"

ConfigFields ==
    {"style_profile", "max_diagram_width", "max_diagram_height", "page_margins",
     "has_page_numbers"}

\* The configuration of a call as passed, and in the form the table stores.
ConfigOf(p) == [f \in ConfigFields |-> p[f]]
Canonical(p) ==
    [style_profile      |-> p.style_profile,
     max_diagram_width  |-> StrOrNone(p.max_diagram_width),
     max_diagram_height |-> StrOrNone(p.max_diagram_height),
     page_margins       |-> p.page_margins,
     has_page_numbers   |-> BoolInt(p.has_page_numbers)]

\* The fields in which two stored configurations differ.
Differing(c1, c2) == {f \in ConfigFields : c1[f] # c2[f]}

\* The file can be read and its digest is h.
HasFingerprint(f, h) == f.exists /\ f.readable /\ HexDigest[f.content] = h

\* The call that returned is about identifier id, whose last save is still in
\* force and had the same source hash as the call.
SinceSaveOf(id) ==
    /\ NeedsReturned
    /\ ret.kind = "bool"
    /\ call.args.filename = id
    /\ call.args.pdf_path = OutPath(id)
    /\ hist[id].saved
    /\ SaveParams(hist[id].args).markdown_hash = call.args.markdown_hash

\* ... and the same configuration.
SameCallAsSaved(id) ==
    /\ SinceSaveOf(id)
    /\ ConfigOf(SaveParams(hist[id].args)) = ConfigOf(NeedsParams(call.args))

(***************************************************************************)
(* C1.  needs_regeneration returns False exactly when a record exists for  *)
(* the identifier, its source hash is the current one, each of its five    *)
(* configuration fields is the current one (in stored form), its output    *)
(* hash is present, the output file exists, and the file's digest is the   *)
(* stored output hash; in particular it returns True on an empty store.    *)
(***************************************************************************)
C1_FalseIffAllSixHold ==
    NeedsReturned =>
        LET p == NeedsParams(call.args)
            f == outFile[p.pdf_path]
        IN /\ ret.kind = "bool"
           /\ (ret.val = FALSE) <=>
                \E r \in db :
                    /\ r.filename = p.filename
                    /\ r.markdown_hash = p.markdown_hash
                    /\ r.style_profile = p.style_profile
                    /\ r.max_diagram_width = StrOrNone(p.max_diagram_width)
                    /\ r.max_diagram_height = StrOrNone(p.max_diagram_height)
                    /\ r.page_margins = p.page_margins
                    /\ r.has_page_numbers = BoolInt(p.has_page_numbers)
                    /\ r.pdf_hash # None
                    /\ f.exists
                    /\ HasFingerprint(f, r.pdf_hash)
           /\ db = {} => ret.val = TRUE

\* A call with a full configuration is answered False.
C1_Witness ==
    /\ NeedsReturned
    /\ ret = ReturnBool(FALSE)
    /\ call.args.nargs = 8
    /\ call.args.page_margins # None

(***************************************************************************)
(* C3.  As first stated: after a save(id, s, o, cfg) made while the output *)
(* file had fingerprint o, every needs_regeneration(id, s, path, cfg)      *)
(* returns False as long as no save, remove or clear of id and no change   *)
(* of the output file came in between.                                     *)
(***************************************************************************)
C3_FreshUntilSaveRemoveClear ==
    \A id \in Ids :
        (/\ SameCallAsSaved(id)
         /\ hist[id].ev = "none"
         /\ HasFingerprint(outFile[OutPath(id)], SaveParams(hist[id].args).pdf_hash))
        => ret.val = FALSE

(***************************************************************************)
(* C3, amended.  ... as long as no save, remove or clear of id, no         *)
(* update_pdf_hash that changed the stored output hash of id, and no       *)
(* change of the output file came in between.                              *)
(***************************************************************************)
C3_FreshUntilStoreOrFileChange ==
    \A id \in Ids :
        (/\ SameCallAsSaved(id)
         /\ hist[id].ev = "none"
         /\ HasFingerprint(outFile[OutPath(id)], SaveParams(hist[id].args).pdf_hash)
         /\ \A r \in RowsOf(db, id) : r.pdf_hash = SaveParams(hist[id].args).pdf_hash)
        => ret.val = FALSE

\* The identical call is answered False twice over: the output file was written
\* before the save and nothing touched it since.
C3_Witness ==
    /\ SameCallAsSaved("a.md")
    /\ hist["a.md"].ev = "none"
    /\ HasFingerprint(outFile[OutPath("a.md")], SaveParams(hist["a.md"].args).pdf_hash)
    /\ \A r \in RowsOf(db, "a.md") : r.pdf_hash = SaveParams(hist["a.md"].args).pdf_hash
    /\ call.args.max_diagram_width = DimInt(1680)
    /\ ret = ReturnBool(FALSE)

(***************************************************************************)
(* C4.  After a save, a needs_regeneration call with the same source hash  *)
(* whose configuration differs from the saved one in exactly one field (as *)
(* stored: a dimension by its string form, page numbering as 0 or 1)       *)
(* returns True, whichever of the five fields it is and also when the      *)
(* difference is between None and a value.                                 *)
(***************************************************************************)
C4_OneFieldChangedIsStale ==
    \A id \in Ids : \A field \in ConfigFields :
        (/\ SinceSaveOf(id)
         /\ Differing(Canonical(SaveParams(hist[id].args)),
                      Canonical(NeedsParams(call.args))) = {field})
        => ret.val = TRUE

\* The output file is intact and only the diagram width went from 1680 to None.
C4_Witness ==
    /\ SinceSaveOf("a.md")
    /\ hist["a.md"].ev = "none"
    /\ HasFingerprint(outFile[OutPath("a.md")], SaveParams(hist["a.md"].args).pdf_hash)
    /\ Differing(Canonical(SaveParams(hist["a.md"].args)),
                 Canonical(NeedsParams(call.args))) = {"max_diagram_width"}
    /\ SaveParams(hist["a.md"].args).max_diagram_width = DimInt(1680)
    /\ call.args.max_diagram_width = DimNone
    /\ ret = ReturnBool(TRUE)

(***************************************************************************)
(* C5.  When the environment deleted the output file after the save, the   *)
(* needs_regeneration call with the saved source hash and configuration    *)
(* returns True.                                                           *)
(***************************************************************************)
C5_DeletedOutputIsStale ==
    \A id \in Ids :
        (SameCallAsSaved(id) /\ hist[id].ev = "deleted") => ret.val = TRUE

\* The file had the saved fingerprint's place, was deleted, and the call that
\* started after the deletion returned True.
C5_Witness ==
    /\ SameCallAsSaved("a.md")
    /\ hist["a.md"].ev = "deleted"
    /\ SaveParams(hist["a.md"].args).pdf_hash # None
    /\ local = NoLocal
    /\ ret = ReturnBool(TRUE)

(***************************************************************************)
(* C6.  When the environment rewrote the output file after the save and    *)
(* its digest is no longer the stored output hash, the needs_regeneration  *)
(* call with the saved source hash and configuration returns True.         *)
(***************************************************************************)
C6_TamperedOutputIsStale ==
    \A id \in Ids :
        (/\ SameCallAsSaved(id)
         /\ hist[id].ev = "written"
         /\ \E r \in RowsOf(db, id) : ~HasFingerprint(outFile[OutPath(id)], r.pdf_hash))
        => ret.val = TRUE

\* The file was hashed: it exists, is readable, and holds another content than
\* the one whose digest is stored.
C6_Witness ==
    /\ SameCallAsSaved("a.md")
    /\ hist["a.md"].ev = "written"
    /\ local.hash.kind = "str"
    /\ \E r \in RowsOf(db, "a.md") : r.pdf_hash \in Digests /\ local.hash.val # r.pdf_hash
    /\ ret = ReturnBool(TRUE)

(***************************************************************************)
(* C7.  When calculate_file_hash fails inside needs_regeneration (the file *)
(* is unreadable, or was removed after pdf_path.exists()), the call        *)
(* returns True; needs_regeneration never raises the fingerprinting error. *)
(***************************************************************************)
C7_HashFailureIsStale ==
    NeedsReturned =>
        /\ ret.kind = "bool"
        /\ local.hash.kind = "raise" => ret.val = TRUE

\* The file existed at pdf_path.exists() and was gone at the read.
C7_Witness ==
    /\ NeedsReturned
    /\ local.hash.kind = "raise"
    /\ ~outFile[call.args.pdf_path].exists
    /\ ret = ReturnBool(TRUE)

(***************************************************************************)
(* C8.  The table never holds two rows for one identifier, and after a     *)
(* save the identifier's row carries exactly the source hash, output hash  *)
(* and configuration of that save, an argument left out counting as its    *)
(* default (output hash None, profile 'a4-print', bounds and margins None, *)
(* page numbers on): nothing of the row it replaced survives.              *)
(***************************************************************************)
C8_UpsertReplacesWholeRecord ==
    /\ \A id \in Ids : Cardinality(RowsOf(db, id)) <= 1
    /\ SaveReturned =>
         LET a == call.args IN
         \A r \in RowsOf(db, a.filename) :
            /\ r.markdown_hash = a.markdown_hash
            /\ r.pdf_hash = IF a.nargs >= 3 THEN a.pdf_hash ELSE None
            /\ r.style_profile = IF a.nargs >= 4 THEN a.style_profile ELSE "a4-print"
            /\ r.max_diagram_width =
                 IF a.nargs >= 5 THEN StrOrNone(a.max_diagram_width) ELSE None
            /\ r.max_diagram_height =
                 IF a.nargs >= 6 THEN StrOrNone(a.max_diagram_height) ELSE None
            /\ r.page_margins = IF a.nargs >= 7 THEN a.page_margins ELSE None
            /\ r.has_page_numbers =
                 IF a.nargs >= 8 THEN BoolInt(a.has_page_numbers) ELSE 1

\* A save without the optional arguments replaced a row that had an output hash,
\* a diagram width and margins.
C8_Witness ==
    /\ SaveReturned
    /\ call.args.nargs = 2
    /\ \E old \in call.replaced :
          /\ old.pdf_hash # None
          /\ old.max_diagram_width # None
          /\ old.page_margins # None
    /\ \E r \in RowsOf(db, call.args.filename) :
          r.pdf_hash = None /\ r.max_diagram_width = None /\ r.page_margins = None

(***************************************************************************)
(* C10.  While the record of an identifier has no output hash, every       *)
(* needs_regeneration call on that identifier returns True, whatever the   *)
(* source hash, the configuration and the state of the output file.        *)
(***************************************************************************)
C10_NoOutputHashIsStale ==
    NeedsReturned =>
        ((\E r \in RowsOf(db, call.args.filename) : r.pdf_hash = None)
            => ret = ReturnBool(TRUE))

\* Source hash and configuration are the stored ones and the output file is there
\* and readable: only the missing output hash makes the answer True.
C10_Witness ==
    /\ NeedsReturned
    /\ \E r \in RowsOf(db, call.args.filename) :
          /\ r.pdf_hash = None
          /\ r.markdown_hash = call.args.markdown_hash
          /\ Differing(r, Canonical(NeedsParams(call.args))) = {}
    /\ outFile[call.args.pdf_path].exists
    /\ outFile[call.args.pdf_path].readable
    /\ ret = ReturnBool(TRUE)

\* get_document_state returned in the last step, and the step before it was a
\* successful save of the same identifier.
GetRightAfterSave ==
    /\ call.op = "get_document_state"
    /\ call.after # <<>>
    /\ call.after[2].kind = "none"
    /\ call.after[1].filename = call.args.filename

\* The dict that get returned has the source hash, output hash and configuration
\* of the save before it, in stored form.
GotWhatWasSaved ==
    LET p == SaveParams(call.after[1]) IN
    /\ ret.kind = "dict"
    /\ ret.val.markdown_hash = p.markdown_hash
    /\ ret.val.pdf_hash = p.pdf_hash
    /\ ret.val.style_profile = p.style_profile
    /\ ret.val.max_diagram_width = StrOrNone(p.max_diagram_width)
    /\ ret.val.max_diagram_height = StrOrNone(p.max_diagram_height)
    /\ ret.val.page_margins = p.page_margins
    /\ ret.val.has_page_numbers = BoolInt(p.has_page_numbers)

C2_SkippedOutputMadeFromCurrentSource ==
    \A id \in ConvIds :
        worker[id].pc = "skipped" =>
            /\ worker[id].content \in Contents
            /\ HexDigest[worker[id].content] = worker[id].checked

(***************************************************************************)
(* C11.  created_at is set when the record of an identifier is first       *)
(* inserted: a save that finds a record of its identifier refreshes        *)
(* updated_at and leaves created_at as that record had it.                 *)
(***************************************************************************)
C11_CreatedAtSetOnFirstInsertOnly ==
    SaveReturned =>
        \A old \in call.replaced : \A r \in RowsOf(db, call.args.filename) :
            /\ r.updated_at = now
            /\ r.created_at = old.created_at

(***************************************************************************)
(* C12.  No row of the table ever has a NULL source hash: a save whose     *)
(* source hash is None raises RuntimeError and leaves every row, the       *)
(* identifier's existing one included, as it was.                          *)
(***************************************************************************)
C12_SourceHashNeverNull ==
    /\ [](\A r \in db : r.markdown_hash # None)
    /\ [][(call'.op = "save_document_state" /\ call'.args.markdown_hash = None)
            => (ret' = Raise("RuntimeError") /\ db' = db)]_vars

\* The refused save found a record of its identifier, which is still there.
C12_Witness ==
    /\ call.op = "save_document_state"
    /\ call.args.markdown_hash = None
    /\ ret = Raise("RuntimeError")
    /\ call.replaced # {}
    /\ RowsOf(db, call.args.filename) = call.replaced

(***************************************************************************)
(* C13.  When save_document_state raises, the identifier's record is       *)
(* afterwards either the whole record it had before the call (none, when   *)
(* it had none) or the whole record of the call: never the old row deleted *)
(* without the new one inserted, never a row mixing old and new fields.    *)
(***************************************************************************)
C13_FailedSaveIsAllOrNothing ==
    (call.op = "save_document_state" /\ ret.kind = "raise") =>
        \/ RowsOf(db, call.args.filename) = call.replaced
        \/ RowsOf(db, call.args.filename) = {SavedRow(SaveParams(call.args), now)}

\* The execute failed after the old row, which differs from the new one, had
\* been deleted; the old row is in the table.
C13_Witness ==
    /\ call.op = "save_document_state"
    /\ ret.kind = "raise"
    /\ "fault" \in DOMAIN call
    /\ call.fault = "execute"
    /\ call.args.markdown_hash # None
    /\ call.replaced # {}
    /\ call.replaced # {SavedRow(SaveParams(call.args), now)}
    /\ RowsOf(db, call.args.filename) = call.replaced

(***************************************************************************)
(* C14.  When sqlite3 fails in get_document_state, needs_regeneration,     *)
(* save_document_state, remove_document, clear_all_documents or            *)
(* get_all_documents, at the connect, the execute or the commit, the       *)
(* caller gets a RuntimeError: needs_regeneration answers neither True nor *)
(* False and get_document_state does not answer None.                      *)
(***************************************************************************)
C14_StorageFailureIsRaised ==
    ("fault" \in DOMAIN call /\ call.fault \in Faults) =>
        /\ ret = Raise("RuntimeError")
        /\ call.op \in {"get_document_state", "needs_regeneration",
                        "save_document_state", "remove_document",
                        "clear_all_documents", "get_all_documents"}

\* The lookup of needs_regeneration failed on a store that has the record asked
\* about.
C14_Witness ==
    /\ call.op = "needs_regeneration"
    /\ "fault" \in DOMAIN call
    /\ call.fault = "execute"
    /\ RowsOf(db, call.args.filename) # {}
    /\ ret = Raise("RuntimeError")

(***************************************************************************)
(* C15.  remove_document(id) deletes the record of id and nothing else: it *)
(* returns without raising, a get_document_state(id) on the table it       *)
(* leaves answers None, and the record of every other identifier is as it  *)
(* was; when id has no record the table is unchanged.                      *)
(***************************************************************************)
C15_RemoveDeletesExactlyOne ==
    [][call'.op = "remove_document" =>
          LET id == call'.args.filename IN
          /\ ret' = ReturnNone
          /\ get_document_state(db', id) = ReturnNone
          /\ \A other \in Ids \ {id} : RowsOf(db', other) = RowsOf(db, other)
          /\ RowsOf(db, id) = {} => db' = db]_vars

\* A record was deleted and the record of the other identifier is in the table.
C15_Witness ==
    /\ call.op = "remove_document"
    /\ call.removed # {}
    /\ RowsOf(db, call.args.filename) = {}
    /\ db # {}

(***************************************************************************)
(* C16.  clear_all_documents returns the number of records the table held  *)
(* when it was called (0 for an empty table) and leaves the table empty:   *)
(* on it get_document_state answers None and needs_regeneration True for   *)
(* every identifier, and so do the calls made until the identifier is      *)
(* saved again.                                                            *)
(***************************************************************************)
C16_ClearReturnsCountAndEmpties ==
    /\ [][call'.op = "clear_all_documents" =>
            /\ ret' = ReturnInt(Cardinality(db))
            /\ db = {} => ret' = ReturnInt(0)
            /\ \A id \in Ids : get_document_state(db', id) = ReturnNone
            /\ \A a \in NeedsArgs :
                 needs_regeneration(db', a, outFile'[a.pdf_path]) = ReturnBool(TRUE)]_vars
    /\ [](\A id \in Ids : ~hist[id].saved =>
            /\ (call.op = "get_document_state" /\ call.args.filename = id)
                  => ret = ReturnNone
            /\ (NeedsReturned /\ call.args.filename = id) => ret = ReturnBool(TRUE))

\* Two records were counted and dropped.
C16_Witness ==
    /\ call.op = "clear_all_documents"
    /\ ret = ReturnInt(2)
    /\ db = {}

(***************************************************************************)
(* C17.  get_all_documents returns every record exactly once, the most     *)
(* recently updated first; in particular, right after a save of identifier *)
(* A (which was then saved after every other identifier was last saved),   *)
(* the record of A is the first of the list.                               *)
(***************************************************************************)
C17_ListAllMostRecentFirst ==
    (call.op = "get_all_documents" /\ ret.kind = "list") =>
        /\ Len(ret.val) = Cardinality(db)
        /\ {ret.val[i] : i \in DOMAIN ret.val} = db
        /\ \A i, j \in DOMAIN ret.val :
              i < j => ret.val[i].updated_at >= ret.val[j].updated_at
        /\ (call.after # <<>> /\ call.after[2].kind = "none") =>
              ret.val[1].filename = call.after[1].filename

(***************************************************************************)
(* C18.  get_document_state and needs_regeneration write nothing: in every *)
(* step of either (the caller's step into or out of the operation),        *)
(* whatever it returns, the table (every row, every field, updated_at      *)
(* included) and the output files are as before; and no column of the      *)
(* table holds a verdict.                                                  *)
(***************************************************************************)
C18_GetAndNeedsWriteNothing ==
    /\ [][(/\ call'.op \in {"get_document_state", "needs_regeneration"}
           /\ (pc = "idle" \/ pc' = "idle"))
            => (db' = db /\ outFile' = outFile)]_vars
    /\ [](\A r \in db : DOMAIN r = Columns)

\* needs_regeneration hashed the output file of a record and answered True.
C18_Witness ==
    /\ NeedsReturned
    /\ ret = ReturnBool(TRUE)
    /\ local.hash.kind = "str"
    /\ \E r \in RowsOf(db, call.args.filename) : r.pdf_hash # None

(***************************************************************************)
(* C19.  Whatever the interleaving of a caller's operations with a         *)
(* clear_all_documents in progress, no operation raises because of the     *)
(* other's unfinished work (a save raises only for its own NULL source     *)
(* hash), and the clear returns what it would in a sequential order: the   *)
(* number of records it removed.                                           *)
(***************************************************************************)
C19_SafeNextToClear ==
    /\ (call.op # "none" /\ ret.kind = "raise") =>
          /\ call.op = "save_document_state"
          /\ call.args.markdown_hash = None
          /\ "fault" \notin DOMAIN call
    /\ clearer.pc = "returned" => clearer.count = clearer.dropped

C21_LastWriteWins ==
    \A s, t \in Savers :
        (/\ conn[s].op = "save_document_state" /\ conn[t].op = "save_document_state"
         /\ conn[s].pc = "returned" /\ conn[s].ret = ReturnNone
         /\ conn[t].pc = "returned" /\ conn[t].ret = ReturnNone
         /\ conn[s].args.filename = conn[t].args.filename
         /\ conn[s].seq < conn[t].seq)
        => RowsOf(db, conn[t].args.filename) = {conn[t].row}

\* Two saves of one identifier with different hashes, configurations and
\* timestamps, the second of which had to wait for the first one's lock.
C21_Witness ==
    \E s, t \in Savers :
        /\ conn[s].op = "save_document_state" /\ conn[t].op = "save_document_state"
        /\ conn[s].pc = "returned" /\ conn[s].ret = ReturnNone
        /\ conn[t].pc = "returned" /\ conn[t].ret = ReturnNone
        /\ conn[s].args.filename = conn[t].args.filename
        /\ conn[s].seq < conn[t].seq
        /\ conn[t].waited
        /\ conn[s].row.pdf_hash # None /\ conn[t].row.pdf_hash = None
        /\ conn[s].row.style_profile # conn[t].row.style_profile
        /\ conn[s].row.updated_at # conn[t].row.updated_at
        /\ conn[t].row \in db

(***************************************************************************)
(* C22.  No store transaction spans the render pipeline: a process has a   *)
(* transaction open (and so holds the database lock) only between the      *)
(* execute and the commit inside a store operation; once the operation has *)
(* returned or raised, and while the process is outside the store, where a *)
(* worker renders, it has none.                                            *)
(***************************************************************************)
C22_NoTransactionOutsideTheStore ==
    \A s \in Savers : conn[s].open => conn[s].pc = "executed"

\* A save whose commit failed has raised, and the other process, which found
\* the lock taken, has since got the lock for its own save.
C22_Witness ==
    \E s, t \in Savers :
        /\ conn[s].pc = "returned"
        /\ conn[s].ret.kind = "raise"
        /\ conn[s].working # {}
        /\ conn[t].waited
        /\ conn[t].pc = "executed"
        /\ conn[t].open

(***************************************************************************)
(* C23.  For each of the formats pdf, epub and mobi: when the pipeline of  *)
(* a run has written the output (after a cache miss) and the store did not *)
(* fail, the run ends with the document reported as converted and with a   *)
(* record that holds the fingerprint of the source, the fingerprint of the *)
(* output and the configuration passed; and the run that follows a         *)
(* converted one, with the source, the margins and the output unchanged,   *)
(* skips the document.                                                     *)
(***************************************************************************)
C23_ConvertedIsSavedAndSkippedNext ==
    /\ [](\A id \in ConvIds :
            (/\ worker[id].fmt \in {"pdf", "epub", "mobi"}
             /\ worker[id].rendered /\ ~worker[id].raised /\ ~worker[id].edited
             /\ worker[id].pc \in {"converted", "failed"})
            => /\ worker[id].pc = "converted"
               /\ \E r \in RowsOf(db, id) :
                     /\ r.markdown_hash = SourceHash(id)
                     /\ HasFingerprint(outFile[OutPath(id)], r.pdf_hash)
                     /\ r.style_profile = worker[id].config.style_profile)
    /\ [][\A id \in ConvIds :
            (/\ worker[id].fmt \in {"pdf", "epub", "mobi"}
             /\ worker[id].pc = "start"
             /\ worker[id].last = "converted"
             /\ ~worker[id].edited
             /\ worker[id].margins = worker[id].outMargins)
            => worker'[id].pc \in {"start", "skipped"}]_vars

(***************************************************************************)
(* C24.  The configuration a converter passes to needs_regeneration and to *)
(* save_document_state holds the converter's actual page margins, so that  *)
(* a run whose converter differs from the one that rendered the output     *)
(* only in the page margins does not skip the document.                    *)
(***************************************************************************)
C24_ActualConfigurationSupplied ==
    \A id \in ConvIds :
        /\ worker[id].checked # None =>
              worker[id].config.page_margins = worker[id].margins
        /\ worker[id].pc = "skipped" => worker[id].outMargins = worker[id].margins

C26_CountersTellWhatHappened ==
    \A id \in ConvIds :
        worker[id].counted # "none" =>
            /\ worker[id].counted = "skipped" <=> worker[id].pc = "skipped"
            /\ worker[id].counted = "success" <=> worker[id].pc = "converted"

(***************************************************************************)
(* C27.  The diagram bounds are stored and compared in one canonical form: *)
(* a save stores None for an unset bound and str(v) for a set one, and     *)
(* needs_regeneration, when nothing else makes the record stale, answers   *)
(* False exactly when each bound is unchanged, i.e. stored and supplied    *)
(* are both unset, or both set with the stored text equal to str of the    *)
(* supplied value.  So the int 1680 and the string "1680" are the same     *)
(* bound, and an unset bound never matches a set one.                      *)
(***************************************************************************)
StrOf(v) == IF v.t = "int" THEN IntStr(v.i) ELSE v.s

SameDimension(stored, v) ==
    \/ stored = None /\ v.t = "none"
    \/ stored # None /\ v.t # "none" /\ stored = StrOf(v)

C27_DimensionsComparedAsStrings ==
    /\ SaveReturned =>
          LET p == SaveParams(call.args) IN
          \A r \in RowsOf(db, p.filename) :
              /\ r.max_diagram_width =
                    IF p.max_diagram_width.t = "none" THEN None
                    ELSE StrOf(p.max_diagram_width)
              /\ r.max_diagram_height =
                    IF p.max_diagram_height.t = "none" THEN None
                    ELSE StrOf(p.max_diagram_height)
    /\ NeedsReturned =>
          LET p == NeedsParams(call.args) IN
          \A r \in RowsOf(db, p.filename) :
              (/\ r.markdown_hash = p.markdown_hash
               /\ r.style_profile = p.style_profile
               /\ r.page_margins = p.page_margins
               /\ r.has_page_numbers = BoolInt(p.has_page_numbers)
               /\ r.pdf_hash # None
               /\ HasFingerprint(outFile[p.pdf_path], r.pdf_hash))
              => (ret.val = FALSE <=>
                    /\ SameDimension(r.max_diagram_width, p.max_diagram_width)
                    /\ SameDimension(r.max_diagram_height, p.max_diagram_height))

\* A record saved with the width as the int 1680 is asked about with the width
\* as the string "1680", and is fresh.
C27_Witness ==
    /\ NeedsReturned
    /\ ret = ReturnBool(FALSE)
    /\ NeedsParams(call.args).max_diagram_width = DimStr("1680")
    /\ hist[call.args.filename].saved
    /\ SaveParams(hist[call.args.filename].args).max_diagram_width = DimInt(1680)

(***************************************************************************)
(* C28.  update_pdf_hash changes only pdf_hash and updated_at of the       *)
(* identifier's record: its other fields, created_at included, and every   *)
(* other record stay as they were; when the identifier has no record, none *)
(* is created and the table is unchanged.                                  *)
(***************************************************************************)
C28_UpdateTouchesTwoFields ==
    [][call'.op = "update_pdf_hash" =>
         LET id == call'.args.filename IN
         /\ ret' = ReturnNone
         /\ {r \in db' : r.filename # id} = {r \in db : r.filename # id}
         /\ RowsOf(db, id) = {} => db' = db
         /\ \A r \in RowsOf(db, id) :
               RowsOf(db', id) = {[r EXCEPT !.pdf_hash = call'.args.pdf_hash,
                                            !.updated_at = now]}]_vars

\* The output hash of a record saved a second ago was replaced, next to the
\* record of the other identifier.
C28_Witness ==
    /\ call.op = "update_pdf_hash"
    /\ \E r \in RowsOf(db, call.args.filename) :
          /\ r.pdf_hash = call.args.pdf_hash
          /\ r.pdf_hash # r.markdown_hash
          /\ r.created_at < r.updated_at
          /\ r.max_diagram_width = "1680"
    /\ \E r \in db : r.filename # call.args.filename /\ r.pdf_hash # call.args.pdf_hash

(***************************************************************************)
(* C29.  The schema changes only in clear_all_documents.  Opening the      *)
(* store on a table with the older schema adds no column, and as long as   *)
(* the table has the older schema get_document_state, needs_regeneration   *)
(* and save_document_state raise a storage error.  After                   *)
(* clear_all_documents the table has the full current schema and no rows,  *)
(* whatever its schema was, and from then on the three operations succeed. *)
(***************************************************************************)
C29_SchemaEvolvesOnlyOnClear ==
    /\ [][call'.op # "clear_all_documents" => columns' = columns]_vars
    /\ [][call'.op = "clear_all_documents" =>
            /\ ret'.kind = "int"
            /\ columns' = Columns
            /\ db' = {}]_vars
    /\ [](\A r \in db : DOMAIN r = columns)
    /\ []((/\ call.op \in {"get_document_state", "needs_regeneration",
                           "save_document_state"}
           /\ ret.kind # "idle")
          => IF columns = Columns
             THEN ret.kind = "raise" => call.args.markdown_hash = None
             ELSE ret = Raise("RuntimeError"))

\* The table was cleared, a document was saved with a full configuration and
\* read back.
C29_Witness ==
    /\ columns = Columns
    /\ call.op = "get_document_state"
    /\ ret.kind = "dict"
    /\ ret.val.max_diagram_width = "1680"
    /\ ret.val.has_page_numbers = 1

(***************************************************************************)
(* C30.  In a parallel conversion no path under temp_dir is written by two *)
(* workers that process different documents, whether it is a diagram       *)
(* image, an embedded image copy, the temp markdown, the HTML or enhanced  *)
(* HTML, the intermediate EPUB or the device CSS file; and temp_dir is     *)
(* removed only after every worker has finished.                           *)
(***************************************************************************)
C30_TempFilesPerDocument ==
    /\ \A e1, e2 \in tempDir.wrote : e1.path = e2.path => e1.by = e2.by
    /\ ~tempDir.exists =>
          \A id \in Ids : worker[id].pc \in {"skipped", "converted", "failed"}
====
